---- MODULE Spec2Model ----
(***************************************************************************)
(* Model of backup_zendesk.py: the paginated fetcher (for_all_pages), the  *)
(* attachment discovery and download (download_all_resources), the raw     *)
(* snapshot (save_raw_data_to_disk) and the renderer                       *)
(* (save_nice_data_to_disk), sequenced as in main.                         *)
(*                                                                         *)
(* Strings that the program parses or builds (img src, file names, paths)  *)
(* are sequences of tokens; the token "article_attachments/" stands for    *)
(* that literal substring, every other token for one character or for a    *)
(* run of characters that the program never splits.                        *)
(***************************************************************************)
EXTENDS Integers, Sequences, FiniteSets, TLC

VARIABLES
    pages,                \* the server: <<collection, locale>> -> chain of page responses
    pc,                   \* position of main / of the running function
    run,                  \* calls of download_all_resources so far
    fp,                   \* activation of for_all_pages
    media,                \* the server: display name and content of its attachments
    requests,             \* the URL of every HTTP request issued, in order
    response,             \* local of download_all_resources: the last response
    articles,             \* global articles: locale -> list of ArticleObject
    articles_attachments, \* global articles_attachments: dict in insertion order
    categories,           \* global categories: locale -> list of CategoryObject
    sections,             \* global sections: locale -> list of SectionObject
    distinct_articles,    \* local of download_all_resources
    path,                 \* local of save_nice_data_to_disk: the article's directory
    soup,                 \* local of save_nice_data_to_disk: the parsed body
    dirs,                 \* directories made under the backup directory
    written               \* every file write under the backup directory, in order

globals == <<articles, articles_attachments, categories, sections>>
disk == <<dirs, written>>
server == <<pages, media, run>>
vars == <<pages, media, pc, run, fp, requests, response, articles, articles_attachments, categories,
          sections, distinct_articles, path, soup, dirs, written>>

\* ------------------------------------------------------------------ bounds
MaxPages == 2
MaxItems == 1

\* ------------------------------------------------------------------ strings
Marker == "article_attachments/"

Digits == <<"0", "1", "2", "3", "4", "5", "6", "7", "8", "9">>
IsDigit(t) == \E d \in 1..Len(Digits) : Digits[d] = t
DigitVal(t) == (CHOOSE d \in 1..Len(Digits) : Digits[d] = t) - 1

\* position of the first token t of s, 0 when there is none
IndexOf(s, t) ==
    IF \E i \in 1..Len(s) : s[i] = t
    THEN CHOOSE i \in 1..Len(s) : s[i] = t /\ \A j \in 1..(i - 1) : s[j] # t
    ELSE 0

\* s.split(t)[0]
SplitHead(s, t) == IF IndexOf(s, t) = 0 THEN s ELSE SubSeq(s, 1, IndexOf(s, t) - 1)

\* s.split(t)[1]; the caller checks that t occurs (IndexError otherwise)
SplitSecond(s, t) == SplitHead(SubSeq(s, IndexOf(s, t) + 1, Len(s)), t)

\* int(s) for a string of decimal digits
RECURSIVE StrToInt(_)
StrToInt(s) ==
    IF Len(s) = 0 THEN 0
    ELSE 10 * StrToInt(SubSeq(s, 1, Len(s) - 1)) + DigitVal(s[Len(s)])

\* str(n) for n >= 0
RECURSIVE IntToStr(_)
IntToStr(n) ==
    IF n < 10 THEN <<Digits[n + 1]>>
    ELSE IntToStr(n \div 10) \o <<Digits[(n % 10) + 1]>>

NoId == -1

AttachmentId_lenient(src) ==
    LET piece == SplitHead(SplitSecond(src, Marker), "/")
    IN  IF IndexOf(src, Marker) # 0 /\ (Len(piece) = 0 \/ \E i \in 1..Len(piece) : ~IsDigit(piece[i]))
        THEN NoId
        ELSE StrToInt(SelectSeq(piece, IsDigit))

\* int(src.split("article_attachments/")[1].split("/")[0]) raises:
\* IndexError without the marker, ValueError when the piece is no integer
AttachmentId(src) ==
    IF IndexOf(src, Marker) = 0 THEN NoId
    ELSE LET piece == SplitHead(SplitSecond(src, Marker), "/")
         IN  IF Len(piece) > 0 /\ \A i \in 1..Len(piece) : IsDigit(piece[i])
             THEN StrToInt(piece)
             ELSE NoId

\* werkzeug's secure_filename on tokens: path separators become blanks, runs of
\* blanks become one "_" (none at either end), every character outside
\* [A-Za-z0-9_.-] is dropped, and "." and "_" are stripped from both ends
Blank == " "
UnsafeTokens == {"!", "?", ":"}

RECURSIVE Words(_, _)
\* filename.split(): the maximal runs of non-blank tokens
Words(s, cur) ==
    IF Len(s) = 0 THEN (IF cur = <<>> THEN <<>> ELSE <<cur>>)
    ELSE IF s[1] = Blank
         THEN (IF cur = <<>> THEN <<>> ELSE <<cur>>) \o Words(Tail(s), <<>>)
         ELSE Words(Tail(s), Append(cur, s[1]))

RECURSIVE Join(_)
\* "_".join(words)
Join(ws) ==
    IF Len(ws) = 0 THEN <<>>
    ELSE IF Len(ws) = 1 THEN ws[1]
    ELSE ws[1] \o <<"_">> \o Join(Tail(ws))

RECURSIVE Strip(_)
\* .strip("._")
Strip(s) ==
    IF Len(s) = 0 THEN s
    ELSE IF s[1] \in {".", "_"} THEN Strip(Tail(s))
    ELSE IF s[Len(s)] \in {".", "_"} THEN Strip(SubSeq(s, 1, Len(s) - 1))
    ELSE s

secure_filename(name) ==
    LET blanked == [i \in 1..Len(name) |-> IF name[i] = "/" THEN Blank ELSE name[i]]
        joined  == Join(Words(blanked, <<>>))
    IN  Strip(SelectSeq(joined, LAMBDA t : t \notin UnsafeTokens))

\* base64.b64encode(content).decode("utf-8"), one symbol per byte here, and
\* base64.b64decode of it
B64Encode(content) == [i \in 1..Len(content) |-> <<"b64", content[i]>>]
B64Decode(text) == [i \in 1..Len(text) |-> text[i][2]]

\* markdownify.markdownify(body): every image becomes ![](src)
Markdownify(body) == [i \in 1..Len(body) |-> <<"![](">> \o body[i] \o <<")">>]

\* ------------------------------------------------------------ control, dicts
\* phase: the statement of main (or of the function it runs); sub: the loop of
\* that function; i: index of the locale; a: of the article; k: of the image
\* or attachment
At(phase, sub, i, a, k) == [phase |-> phase, sub |-> sub, i |-> i, a |-> a, k |-> k]

Aborted == At("aborted", "", 0, 0, 0)

\* a response of the server to a metadata or content request (raised: the
\* request raised instead); this one stands for none received yet
NoResponse == [raised |-> FALSE, reason |-> "", article_attachment |-> <<>>, content |-> <<>>]

\* ZENDESK_LOCALES.locales after get_locales
Locales == <<"en-us", "fr">>

\* a dict keyed by locale
EmptyDict == [l \in {} |-> <<>>]
Put(d, key, val) == (key :> val) @@ d

\* a dict in insertion order, as a list of items
Has(d, key) == \E n \in 1..Len(d) : d[n].key = key
Item(d, key) == CHOOSE n \in 1..Len(d) : d[n].key = key
Val(d, key) == d[Item(d, key)].val
SetVal(d, key, val) ==
    IF Has(d, key) THEN [d EXCEPT ![Item(d, key)].val = val]
    ELSE Append(d, [key |-> key, val |-> val])

\* ------------------------------------------------------- paginated fetcher
NoPage == 0

KnownKeys == {"articles", "categories", "sections", "article_attachments"}

IsOK_always(resp) == TRUE

\* response.reason != "OK"
IsOK(resp) == resp.reason = "OK"

\* the if/elif chain over the payload's keys; "" when none is known
KeyName(json) ==
    IF "articles" \in DOMAIN json THEN "articles"
    ELSE IF "categories" \in DOMAIN json THEN "categories"
    ELSE IF "sections" \in DOMAIN json THEN "sections"
    ELSE IF "article_attachments" \in DOMAIN json THEN "article_attachments"
    ELSE ""

\* session.get(endpoint): the page the server holds at that endpoint
Get(endpoint) == pages[<<endpoint.coll, endpoint.locale>>][endpoint.page]

Endpoint(coll, locale) == [coll |-> coll, locale |-> locale, page |-> 1]

\* the activation at entry: objects = []
Call(endpoint) ==
    [state |-> "loop", endpoint |-> endpoint, objects |-> <<>>, result |-> <<>>]

Extend_overwrite(objects, resp) == resp.json[KeyName(resp.json)]

\* objects.extend(getattr(data, key_name))
Extend(objects, resp) == objects \o resp.json[KeyName(resp.json)]

\* if data.next_page: endpoint = data.next_page  else: break
HasNext(resp) == resp.next_page # NoPage

\* one iteration of the while loop of for_all_pages
for_all_pages ==
    /\ fp.state = "loop"
    /\ LET data == Get(fp.endpoint) IN
       /\ requests' = Append(requests, fp.endpoint)
       /\ IF ~IsOK(data) \/ KeyName(data.json) = ""
          THEN /\ fp' = [fp EXCEPT !.state = "raised"]
               /\ pc' = Aborted
          ELSE /\ pc' = pc
               /\ IF HasNext(data)
                  THEN fp' = [fp EXCEPT !.objects = Extend(fp.objects, data),
                                        !.endpoint.page = data.next_page]
                  ELSE fp' = [fp EXCEPT !.objects = Extend(fp.objects, data),
                                        !.state = "returned",
                                        !.result = Extend(fp.objects, data)]
    /\ UNCHANGED <<server, response, globals, distinct_articles, path, soup, disk>>

\* a chain of n pages: page i refers to page i+1, the last one to none
Page(reason, json, i, n) ==
    [reason |-> reason, json |-> json, next_page |-> IF i < n THEN i + 1 ELSE NoPage]

\* --------------------------------------------------- download_all_resources
\* articles[locale] = for_all_pages(...) for each locale, then
\* distinct_articles = list(set().union(*articles.values())): the records that
\* differ in some field (ArticleObject hashes by id and compares by fields),
\* in the order the set yields them
Range(list) == {list[n] : n \in 1..Len(list)}
Orders(S) == {o \in [1..Cardinality(S) -> S] : \A m, n \in 1..Cardinality(S) : o[m] = o[n] => m = n}
DistinctArticles_first(arts) == Orders(Range(arts[Locales[1]]))

DistinctArticles(arts) == Orders(UNION {Range(arts[l]) : l \in DOMAIN arts})

store_articles ==
    /\ pc.phase = "articles" /\ fp.state = "returned"
    /\ articles' = Put(articles, Locales[pc.i], fp.result)
    /\ IF pc.i < Len(Locales)
       THEN /\ pc' = [pc EXCEPT !.i = pc.i + 1]
            /\ fp' = Call(Endpoint("articles", Locales[pc.i + 1]))
            /\ UNCHANGED distinct_articles
       ELSE /\ pc' = At("attachments", "article", 0, 1, 0)
            /\ fp' = [fp EXCEPT !.state = "idle"]
            /\ distinct_articles' \in DistinctArticles(articles')
    /\ UNCHANGED <<server, requests, response, articles_attachments, categories, sections,
                   path, soup, disk>>

\* for article in distinct_articles: the head of the loop, and lines 278-280
discover_article ==
    /\ pc.phase = "attachments" /\ pc.sub = "article"
    /\ IF pc.a <= Len(distinct_articles)
       THEN /\ articles_attachments' =
                  IF Has(articles_attachments, distinct_articles[pc.a].id)
                  THEN articles_attachments
                  ELSE SetVal(articles_attachments, distinct_articles[pc.a].id, <<>>)
            /\ pc' = [pc EXCEPT !.sub = "img", !.k = 1]
            /\ UNCHANGED <<fp, response, distinct_articles>>
       ELSE /\ pc' = At("categories", "", 1, 0, 0)
            /\ fp' = Call(Endpoint("categories", Locales[1]))
            /\ response' = NoResponse
            /\ distinct_articles' = <<>>
            /\ UNCHANGED articles_attachments
    /\ UNCHANGED <<server, requests, articles, categories, sections, path, soup, disk>>

\* what the server may answer to the metadata request; article_attachment and
\* content_ are optional: <<>> is None, <<x>> is x

Attachment(id, article_id, name) ==
    [id |-> id, article_id |-> article_id, display_file_name |-> name,
     content_url |-> [content |-> id], content_ |-> <<>>]

MetaResponses(article_id, attachment_id) ==
    {[NoResponse EXCEPT !.raised = TRUE],
     [NoResponse EXCEPT !.reason = "Not Found"],
     [NoResponse EXCEPT !.reason = "OK"],
     [NoResponse EXCEPT !.reason = "OK", !.article_attachment =
         <<Attachment(attachment_id, article_id, media.display_file_name)>>]}

\* f"{ZENDESK_DOMAIN}/api/v2/help_center/articles/{article.id}/attachments/{attachment_id}"
MetaUrl(article_id, attachment_id) == [article |-> article_id, attachment |-> attachment_id]

\* the bare except around lines 284-289: the id does not parse, or the request
\* itself raises
Skipped(attachment_id, resp) == attachment_id = NoId \/ resp.raised

\* articles_attachments[article.id].append(attachment.article_attachment)
Discovered(list, resp) == list \o resp.article_attachment

\* for img in soup.find_all("img"): one image of the body, lines 281-300
discover_img ==
    /\ pc.phase = "attachments" /\ pc.sub = "img"
    /\ LET article == distinct_articles[pc.a]
           list == Val(articles_attachments, article.id) IN
       IF pc.k > Len(article.body)
       THEN /\ pc' = [pc EXCEPT !.sub = "content", !.k = 1]
            /\ UNCHANGED <<requests, response, articles_attachments>>
       ELSE LET attachment_id == AttachmentId(article.body[pc.k]) IN
            IF attachment_id = NoId
            THEN /\ pc' = [pc EXCEPT !.k = pc.k + 1]
                 /\ UNCHANGED <<requests, response, articles_attachments>>
            ELSE /\ requests' = Append(requests, MetaUrl(article.id, attachment_id))
                 /\ response' \in MetaResponses(article.id, attachment_id)
                 /\ IF Skipped(attachment_id, response')
                    THEN /\ pc' = [pc EXCEPT !.k = pc.k + 1]
                         /\ UNCHANGED articles_attachments
                    ELSE IF ~IsOK(response')
                    THEN /\ pc' = Aborted
                         /\ UNCHANGED articles_attachments
                    ELSE /\ pc' = [pc EXCEPT !.k = pc.k + 1]
                         /\ articles_attachments' =
                               SetVal(articles_attachments, article.id,
                                      Discovered(list, response'))
    /\ UNCHANGED <<server, fp, articles, categories, sections, distinct_articles,
                   path, soup, disk>>

\* what the server may answer to the download of a content_url
ErrorPage == <<0>>
ContentResponses ==
    {[NoResponse EXCEPT !.raised = TRUE],
     [NoResponse EXCEPT !.reason = "Not Found", !.content = ErrorPage],
     [NoResponse EXCEPT !.reason = "OK", !.content = media.content]}

\* lines 309-311: no look at response.reason
Downloaded(attachment, resp) ==
    [attachment EXCEPT !.content_ = <<B64Encode(resp.content)>>]

\* for attachment in articles_attachments[article.id]: lines 308-311
download_content ==
    /\ pc.phase = "attachments" /\ pc.sub = "content"
    /\ LET article == distinct_articles[pc.a]
           list == Val(articles_attachments, article.id) IN
       IF pc.k > Len(list)
       THEN /\ pc' = [pc EXCEPT !.sub = "article", !.a = pc.a + 1, !.k = 0]
            /\ UNCHANGED <<requests, response, articles_attachments>>
       ELSE /\ requests' = Append(requests, list[pc.k].content_url)
            /\ response' \in ContentResponses
            /\ IF response'.raised
               THEN /\ pc' = Aborted
                    /\ UNCHANGED articles_attachments
               ELSE /\ pc' = [pc EXCEPT !.k = pc.k + 1]
                    /\ articles_attachments' =
                          SetVal(articles_attachments, article.id,
                                 [list EXCEPT ![pc.k] = Downloaded(list[pc.k], response')])
    /\ UNCHANGED <<server, fp, articles, categories, sections, distinct_articles,
                   path, soup, disk>>

store_categories ==
    /\ pc.phase = "categories" /\ fp.state = "returned"
    /\ categories' = Put(categories, Locales[pc.i], fp.result)
    /\ IF pc.i < Len(Locales)
       THEN /\ pc' = [pc EXCEPT !.i = pc.i + 1]
            /\ fp' = Call(Endpoint("categories", Locales[pc.i + 1]))
       ELSE /\ pc' = At("sections", "", 1, 0, 0)
            /\ fp' = Call(Endpoint("sections", Locales[1]))
    /\ UNCHANGED <<server, requests, response, articles, articles_attachments, sections,
                   distinct_articles, path, soup, disk>>

store_sections ==
    /\ pc.phase = "sections" /\ fp.state = "returned"
    /\ sections' = Put(sections, Locales[pc.i], fp.result)
    /\ IF pc.i < Len(Locales)
       THEN /\ pc' = [pc EXCEPT !.i = pc.i + 1]
            /\ fp' = Call(Endpoint("sections", Locales[pc.i + 1]))
       ELSE /\ pc' = At("save_raw", "", 0, 0, 0)
            /\ fp' = [fp EXCEPT !.state = "idle"]
    /\ UNCHANGED <<server, requests, response, articles, articles_attachments, categories,
                   distinct_articles, path, soup, disk>>

\* ---------------------------------------------------- save_raw_data_to_disk
\* a path is the list of its components under the backup directory, a
\* component a string; a write records the file, its content and, for the
\* renderer, the article (locale index, article index) it was written for
File(name, content, by) == [path |-> name, content |-> content, by |-> by]

\* open(path, "w") and write: the file holds what was written to it last
FileAt(log, name) ==
    LET writes == {n \in 1..Len(log) : log[n].path = name}
    IN  IF writes = {} THEN <<>>
        ELSE <<log[CHOOSE n \in writes : \A m \in writes : m <= n].content>>

RECURSIVE Values(_)
\* [attachment for attachments in d.values() for attachment in attachments]
Values(d) == IF Len(d) = 0 THEN <<>> ELSE d[1].val \o Values(Tail(d))

RawFiles_noarticles(l) ==
    <<File(<<<<"raw">>, <<"categories">>, <<"categories_", l, ".json">>>>,
           [categories |-> categories[l]], <<0, 0>>),
      File(<<<<"raw">>, <<"sections">>, <<"sections_", l, ".json">>>>,
           [sections |-> sections[l]], <<0, 0>>)>>

\* the three files of a locale, lines 354-370
RawFiles(l) ==
    <<File(<<<<"raw">>, <<"articles">>, <<"articles_", l, ".json">>>>,
           [articles |-> articles[l]], <<0, 0>>),
      File(<<<<"raw">>, <<"categories">>, <<"categories_", l, ".json">>>>,
           [categories |-> categories[l]], <<0, 0>>),
      File(<<<<"raw">>, <<"sections">>, <<"sections_", l, ".json">>>>,
           [sections |-> sections[l]], <<0, 0>>)>>

RECURSIVE RawFilesFrom(_)
RawFilesFrom(i) ==
    IF i > Len(Locales) THEN <<>> ELSE RawFiles(Locales[i]) \o RawFilesFrom(i + 1)

\* the article of the renderer's loops after article a of locale i
RECURSIVE NextArticle(_, _, _)
NextArticle(arts, i, a) ==
    IF i > Len(Locales) THEN At("done", "", 0, 0, 0)
    ELSE IF a < Len(arts[Locales[i]]) THEN At("save_nice", "plan", i, a + 1, 0)
    ELSE NextArticle(arts, i + 1, 0)

save_raw_data_to_disk ==
    /\ pc.phase = "save_raw"
    /\ dirs' = dirs \cup {<<<<"raw">>>>, <<<<"raw">>, <<"articles">>>>,
                          <<<<"raw">>, <<"categories">>>>, <<<<"raw">>, <<"sections">>>>}
    /\ written' = written \o RawFilesFrom(1) \o
          <<File(<<<<"raw">>, <<"articles_attachments.json">>>>,
                 [articles_attachments |-> Values(articles_attachments)], <<0, 0>>)>>
    /\ pc' = NextArticle(articles, 1, 0)
    /\ UNCHANGED <<server, fp, requests, response, globals, distinct_articles, path, soup>>

\* --------------------------------------------------- save_nice_data_to_disk
Matching_any(list, id) == list

\* next(x for x in list if x.id == id): the matches, in order
Matching(list, id) == SelectSeq(list, LAMBDA x : x.id = id)

Dir_flat(components) == <<components[Len(components)]>>

\* backup_path / Path(a) / Path(b): an empty component names the directory itself
Dir(components) == SelectSeq(components, LAMBDA c : c # <<>>)

\* path.mkdir(parents=True, exist_ok=True)
Mkdir(ds, dir) == ds \cup {SubSeq(dir, 1, n) : n \in 1..Len(dir)}

\* lines 398-412: the section, the category, the directory of the article
nice_plan ==
    /\ pc.phase = "save_nice" /\ pc.sub = "plan"
    /\ LET locale == Locales[pc.i]
           article == articles[locale][pc.a]
           section == Matching(sections[locale], article.section_id) IN
       IF section = <<>> THEN pc' = Aborted /\ UNCHANGED <<path, dirs>>
       ELSE LET category == Matching(categories[locale], section[1].category_id) IN
            IF category = <<>> THEN pc' = Aborted /\ UNCHANGED <<path, dirs>>
            ELSE /\ path' = Dir(<<secure_filename(category[1].name),
                                  secure_filename(section[1].name)>>)
                 /\ dirs' = Mkdir(Mkdir(dirs, path'), Append(path', <<"attachments">>))
                 /\ pc' = [pc EXCEPT !.sub = "attachment", !.k = 1]
    /\ UNCHANGED <<server, fp, requests, response, globals, distinct_articles, soup, written>>

\* if not attachment.content_
Unpopulated(attachment) == attachment.content_ = <<>> \/ attachment.content_[1] = <<>>

\* attachments_path / str(attachment.id) / secure_filename(display_file_name)
AttachmentDir(dir, attachment) == dir \o <<<<"attachments">>, IntToStr(attachment.id)>>
AttachmentFile(attachment) == secure_filename(attachment.display_file_name)

\* for attachment in articles_attachments[article.id]: lines 413-419, then
\* soup = BeautifulSoup(article.body)
nice_attachment ==
    /\ pc.phase = "save_nice" /\ pc.sub = "attachment"
    /\ LET article == articles[Locales[pc.i]][pc.a]
           list == Val(articles_attachments, article.id) IN
       IF pc.k > Len(list)
       THEN /\ soup' = article.body
            /\ pc' = [pc EXCEPT !.sub = "img", !.k = 1]
            /\ UNCHANGED disk
       ELSE /\ soup' = soup
            /\ IF Unpopulated(list[pc.k])
               THEN pc' = Aborted /\ UNCHANGED disk
               ELSE /\ dirs' = Mkdir(dirs, AttachmentDir(path, list[pc.k]))
                    /\ IF AttachmentFile(list[pc.k]) = <<>>
                       THEN pc' = Aborted /\ UNCHANGED written
                       ELSE /\ written' = Append(written,
                                  File(Append(AttachmentDir(path, list[pc.k]),
                                              AttachmentFile(list[pc.k])),
                                       B64Decode(list[pc.k].content_[1]),
                                       <<pc.i, pc.a>>))
                            /\ pc' = [pc EXCEPT !.k = pc.k + 1]
    /\ UNCHANGED <<server, fp, requests, response, globals, distinct_articles, path>>

RECURSIVE Attachments(_, _)
\* for _article in list for attachment in articles_attachments[_article.id]
Attachments(index, list) ==
    IF Len(list) = 0 THEN <<>>
    ELSE Val(index, list[1].id) \o Attachments(index, Tail(list))

Searched_first(arts, locale) == arts[Locales[1]]

\* the articles whose attachment lists the renderer searches for an id
Searched(arts, locale) == arts[locale]

\* f"./attachments/{attachment_id}/{attachment_name}"
LocalSrc(attachment_id, attachment_name) ==
    <<".", "/", "attachments", "/">> \o IntToStr(attachment_id) \o <<"/">> \o attachment_name

\* for img, img_url in zip(imgs, img_urls): lines 427-449
nice_img ==
    /\ pc.phase = "save_nice" /\ pc.sub = "img"
    /\ LET locale == Locales[pc.i]
           article == articles[locale][pc.a] IN
       IF pc.k > Len(article.body)
       THEN pc' = [pc EXCEPT !.sub = "write", !.k = 0] /\ soup' = soup
       ELSE LET attachment_id == AttachmentId(article.body[pc.k])
                found == Matching(Attachments(articles_attachments,
                                              Searched(articles, locale)),
                                  attachment_id) IN
            IF attachment_id = NoId
            THEN pc' = [pc EXCEPT !.k = pc.k + 1] /\ soup' = soup
            ELSE IF found = <<>>
            THEN pc' = Aborted /\ soup' = soup
            ELSE /\ soup' = [soup EXCEPT ![pc.k] =
                                LocalSrc(attachment_id, found[1].display_file_name)]
                 /\ pc' = [pc EXCEPT !.k = pc.k + 1]
    /\ UNCHANGED <<server, fp, requests, response, globals, distinct_articles, path, disk>>

Rendered_rawtitle(article, body) == [article EXCEPT !.body = body]

\* lines 452-463: the body and the title are overwritten, the files written
Rendered(article, body) ==
    [article EXCEPT !.body = body, !.title = secure_filename(article.title)]

nice_write ==
    /\ pc.phase = "save_nice" /\ pc.sub = "write"
    /\ LET locale == Locales[pc.i]
           article == Rendered(articles[locale][pc.a], soup) IN
       /\ articles' = [articles EXCEPT ![locale][pc.a] = article]
       /\ written' = written \o
             <<File(Append(path, article.title \o <<".md">>),
                    Markdownify(article.body), <<pc.i, pc.a>>),
               File(Append(path, article.title \o <<".html">>),
                    article.body, <<pc.i, pc.a>>)>>
       /\ pc' = NextArticle(articles', pc.i, pc.a)
    /\ UNCHANGED <<server, fp, requests, response, articles_attachments, categories, sections,
                   distinct_articles, path, soup, dirs>>

\* --------------------------------------------------------------------- main
\* the server: one page per collection and locale; one article in the first
\* locale, with up to MaxImgs images, and at most one in every other locale,
\* with at most one image; one attachment, 555
MaxImgs == 2

PlatformSrc == <<"https://z/hc/", Marker, "5", "5", "5", "/", "foo.png">>
BareSrc == <<"https://z/hc/", Marker, "5", "5", "5">>
ExternalSrc == <<"https://external.example/x.png">>
MalformedSrc == <<"https://z/hc/", Marker, "x", "/", "foo.png">>
Srcs == {PlatformSrc, ExternalSrc, MalformedSrc}
Bodies(n) == UNION {[1..m -> Srcs] : m \in 0..n}
TranslationBodies == {<<>>, <<BareSrc>>, <<ExternalSrc>>}
ArticleIds == {101, 102}
FileNames == {<<"foo", ".", "png">>, <<"my", Blank, "file", ".", "png">>}
Contents == {<<>>, <<1>>}

Article(id, locale, body) ==
    [id |-> id, locale |-> locale, section_id |-> 11, title |-> <<"How", Blank, "to">>,
     body |-> body]
Category(locale) == [id |-> 1, locale |-> locale, name |-> <<"Billing">>]
Section(locale) == [id |-> 11, category_id |-> 1, locale |-> locale, name |-> <<"Invoices">>]

OnePage(key, list) == <<Page("OK", (key :> list), 1, 1)>>
NotFound == <<Page("Not Found", EmptyDict, 1, 1)>>

ArticleChains(locale) ==
    IF locale = Locales[1]
    THEN {OnePage("articles", <<Article(101, locale, body)>>) : body \in Bodies(MaxImgs)}
         \cup {NotFound}
    ELSE {OnePage("articles", <<Article(id, locale, body)>>) :
             id \in ArticleIds, body \in TranslationBodies}
         \cup {OnePage("articles", <<>>)}

LocaleSet == Range(Locales)

Servers ==
    {[e \in {"articles", "categories", "sections"} \X LocaleSet |->
         IF e[1] = "articles" THEN chain[e[2]]
         ELSE IF e[1] = "categories" THEN OnePage("categories", <<Category(e[2])>>)
         ELSE OnePage("sections", <<Section(e[2])>>)] :
       chain \in {c \in [LocaleSet -> UNION {ArticleChains(l) : l \in LocaleSet}] :
                    \A l \in LocaleSet : c[l] \in ArticleChains(l)}}

Medias == [display_file_name : FileNames, content : Contents]

\* main up to the call of download_all_resources: the session, the locales
\* and the backup directory exist, nothing is fetched or written
Init ==
    /\ pages \in Servers
    /\ media \in Medias
    /\ pc = At("articles", "", 1, 0, 0)
    /\ fp = Call(Endpoint("articles", Locales[1]))
    /\ run = 1
    /\ requests = <<>>
    /\ response = NoResponse
    /\ articles = EmptyDict
    /\ articles_attachments = <<>>
    /\ categories = EmptyDict
    /\ sections = EmptyDict
    /\ distinct_articles = <<>>
    /\ path = <<>>
    /\ soup = <<>>
    /\ dirs = {}
    /\ written = <<>>

Next ==
    \/ for_all_pages
    \/ store_articles
    \/ discover_article
    \/ discover_img
    \/ download_content
    \/ store_categories
    \/ store_sections
    \/ save_raw_data_to_disk
    \/ nice_plan
    \/ nice_attachment
    \/ nice_img
    \/ nice_write

Spec == Init /\ [][Next]_vars

\* ------------------------------ download_all_resources called again (SpecTwice)
MaxRuns == 2

\* a further call of download_all_resources(session) once the last one has
\* returned: the server and the globals are as that call left them
download_again ==
    /\ pc.phase = "save_raw" /\ run < MaxRuns
    /\ run' = run + 1
    /\ pc' = At("articles", "", 1, 0, 0)
    /\ fp' = Call(Endpoint("articles", Locales[1]))
    /\ UNCHANGED <<pages, media, requests, response, globals, distinct_articles,
                   path, soup, disk>>

NextTwice ==
    \/ for_all_pages
    \/ store_articles
    \/ discover_article
    \/ discover_img
    \/ download_content
    \/ store_categories
    \/ store_sections
    \/ download_again

SpecTwice == Init /\ [][NextTwice]_vars

\* ------------------------------------ the hierarchy of the help center (SpecTree)
\* the server: up to two articles in the first locale and one in the other,
\* with images that are not the platform's; sections 11 and 12, present or
\* not, whose names sanitize to the same; a section of a category that the
\* server does not list (2); names that differ or not between the locales;
\* titles that sanitize to the same or not
SectionIds == {11, 12}
FirstTitle == <<"How", Blank, "to">>
SecondTitles == {<<"How", "_", "to">>, <<"FAQ">>}
OtherTitles == {<<"How", Blank, "to">>, <<"FAQ">>}

TreeArticle(id, locale, section_id, title, body) ==
    [id |-> id, locale |-> locale, section_id |-> section_id, title |-> title, body |-> body]
TreeSection(id, category_id, locale, name) ==
    [id |-> id, category_id |-> category_id, locale |-> locale, name |-> name]
TreeCategory(locale, name) == [id |-> 1, locale |-> locale, name |-> name]

TreeArticles(locale) ==
    IF locale = Locales[1]
    THEN LET first == {<<TreeArticle(101, locale, s, FirstTitle, <<ExternalSrc>>)>> :
                          s \in SectionIds}
             second == {<<TreeArticle(102, locale, s, t, <<MalformedSrc>>)>> :
                          s \in SectionIds, t \in SecondTitles}
         IN  first \cup {f \o g : f \in first, g \in second}
    ELSE {<<>>} \cup {<<TreeArticle(103, locale, s, t, <<MalformedSrc, ExternalSrc>>)>> :
                         s \in SectionIds, t \in OtherTitles}

TreeSections(locale) ==
    IF locale = Locales[1]
    THEN LET s11 == {<<TreeSection(11, c, locale, <<"Invoices">>)>> : c \in {1, 2}}
             s12 == <<TreeSection(12, 1, locale, <<"Invoices", "?">>)>>
         IN  {<<>>, s12} \cup s11 \cup {s \o s12 : s \in s11}
    ELSE {<<>>} \cup {<<TreeSection(11, 1, locale, name)>> :
                         name \in {<<"Invoices">>, <<"Factures">>}}

TreeCategories(locale) ==
    IF locale = Locales[1]
    THEN {<<TreeCategory(locale, <<"Billing">>)>>}
    ELSE {<<TreeCategory(locale, name)>> : name \in {<<"Billing">>, <<"Facturation">>}}

InitTree ==
    /\ \E a \in [LocaleSet -> UNION {TreeArticles(l) : l \in LocaleSet}],
          c \in [LocaleSet -> UNION {TreeCategories(l) : l \in LocaleSet}],
          s \in [LocaleSet -> UNION {TreeSections(l) : l \in LocaleSet}] :
          /\ \A l \in LocaleSet :
                a[l] \in TreeArticles(l) /\ c[l] \in TreeCategories(l) /\ s[l] \in TreeSections(l)
          /\ pages = [e \in {"articles", "categories", "sections"} \X LocaleSet |->
                         IF e[1] = "articles" THEN OnePage("articles", a[e[2]])
                         ELSE IF e[1] = "categories" THEN OnePage("categories", c[e[2]])
                         ELSE OnePage("sections", s[e[2]])]
    /\ media = [display_file_name |-> <<"foo", ".", "png">>, content |-> <<1>>]
    /\ pc = At("articles", "", 1, 0, 0)
    /\ fp = Call(Endpoint("articles", Locales[1]))
    /\ run = 1
    /\ requests = <<>>
    /\ response = NoResponse
    /\ articles = EmptyDict
    /\ articles_attachments = <<>>
    /\ categories = EmptyDict
    /\ sections = EmptyDict
    /\ distinct_articles = <<>>
    /\ path = <<>>
    /\ soup = <<>>
    /\ dirs = {}
    /\ written = <<>>

SpecTree == InitTree /\ [][Next]_vars

\* ------------------------------------------- the fetcher on its own (SpecPages)
\* the server never repeats an item: item k of page p is <<p, k>>
PageItems(p, n) == [k \in 1..n |-> <<p, k>>]
PayloadKeys == {{}} \cup {{k} : k \in KnownKeys}
Reasons == {"OK", "Not Found"}

\* page i of n answers with reason r[i] and holds m[i] items under the keys K[i]
TestChain(n, r, K, m) ==
    [i \in 1..n |-> Page(r[i], [k \in K[i] |-> PageItems(i, m[i])], i, n)]

TestEndpoint == Endpoint("articles", "en-us")

InitPages ==
    /\ \E n \in 1..MaxPages :
          \E r \in [1..n -> Reasons], K \in [1..n -> PayloadKeys], m \in [1..n -> 0..MaxItems] :
             pages = (<<"articles", "en-us">> :> TestChain(n, r, K, m))
    /\ media = [display_file_name |-> <<>>, content |-> <<>>]
    /\ pc = At("for_all_pages", "", 1, 0, 0)
    /\ fp = Call(TestEndpoint)
    /\ run = 1
    /\ requests = <<>>
    /\ response = NoResponse
    /\ articles = EmptyDict
    /\ articles_attachments = <<>>
    /\ categories = EmptyDict
    /\ sections = EmptyDict
    /\ distinct_articles = <<>>
    /\ path = <<>>
    /\ soup = <<>>
    /\ dirs = {}
    /\ written = <<>>

NextPages == for_all_pages

SpecPages == InitPages /\ [][NextPages]_vars

FairSpecPages == SpecPages /\ WF_vars(for_all_pages)

Chain == pages[<<"articles", "en-us">>]
PageRequests == requests

RECURSIVE ItemsUpTo(_, _)
ItemsUpTo(chain, n) ==
    IF n = 0 THEN <<>>
    ELSE ItemsUpTo(chain, n - 1) \o
         (IF DOMAIN chain[n].json = {} THEN <<>>
          ELSE chain[n].json[CHOOSE k \in DOMAIN chain[n].json : TRUE])

GoodPage(page) ==
    page.reason = "OK" /\ Cardinality(DOMAIN page.json \cap KnownKeys) = 1

\* C1: over a chain of successful pages of one known collection kind each,
\* for_all_pages terminates, having requested page 1, 2, ..., n once each and
\* in that order, and returns the items of all pages, once each, in page order.
C1_PaginationTermination ==
    (\A i \in 1..Len(Chain) : GoodPage(Chain[i]))
        => <>(/\ fp.state = "returned"
              /\ fp.result = ItemsUpTo(Chain, Len(Chain))
              /\ [i \in 1..Len(PageRequests) |-> PageRequests[i].page]
                     = [i \in 1..Len(Chain) |-> i])

C1_Witness ==
    /\ fp.state = "returned"
    /\ Len(Chain) >= 2
    /\ \A i \in 1..Len(Chain) : Len(ItemsUpTo(Chain, i)) = i * MaxItems
    /\ Len(fp.result) = Len(Chain) * MaxItems

FirstBad ==
    LET bad == {i \in 1..Len(Chain) : ~GoodPage(Chain[i])}
    IN  IF bad = {} THEN 0 ELSE CHOOSE i \in bad : \A j \in bad : i <= j

\* C8: for_all_pages raises at the first page that is not OK or carries no
\* known collection field: no page after it is requested and nothing is
\* returned, not even the items of the pages before it.
C8_FetchFailsAtFirstBadPage ==
    FirstBad # 0 =>
        /\ \A i \in 1..Len(PageRequests) : PageRequests[i].page <= FirstBad
        /\ fp.state # "returned"
        /\ Len(PageRequests) >= FirstBad =>
              /\ fp.state = "raised"
              /\ pc.phase = "aborted"
              /\ fp.result = <<>>
              /\ Len(PageRequests) = FirstBad

C8_Witness ==
    /\ FirstBad = 2
    /\ fp.state = "raised"
    /\ fp.objects # <<>>
    /\ fp.result = <<>>

\* ------------------------------------------------- the pipeline's properties
\* the articles as the server holds them, bodies as written by their authors
Original(i, a) ==
    LET chain == pages[<<"articles", Locales[i]>>] IN ItemsUpTo(chain, Len(chain))[a]

RECURSIVE LeadingDigits(_)
LeadingDigits(s) ==
    IF Len(s) > 0 /\ s[1] \in Range(Digits) THEN <<s[1]>> \o LeadingDigits(Tail(s)) ELSE <<>>

\* the platform pattern article_attachments/{integer id}, the id ending at a
\* "/" or at the end of the src
AfterMarker(src) ==
    LET m == CHOOSE i \in 1..Len(src) : src[i] = Marker /\ \A j \in 1..(i - 1) : src[j] # Marker
    IN  SubSeq(src, m + 1, Len(src))
MatchesPattern(src) ==
    /\ Marker \in Range(src)
    /\ LET rest == AfterMarker(src)
           id == LeadingDigits(rest) IN
       /\ id # <<>>
       /\ Len(rest) = Len(id) \/ rest[Len(id) + 1] = "/"
PatternId(src) == StrToInt(LeadingDigits(AfterMarker(src)))

\* every attachment of every list of the index
Index == Values(articles_attachments)
Indexed(id) == \E n \in 1..Len(Index) : Index[n].id = id

Rendering == pc.phase = "save_nice"
IsArticleFile(f) == f.by # <<0, 0>> /\ f.path[Len(f.path)][Len(f.path[Len(f.path)])] \in {".md", ".html"}
IsHtml(f) == f.by # <<0, 0>> /\ f.path[Len(f.path)][Len(f.path[Len(f.path)])] = ".html"

\* the pattern with the "/" that the specification writes after the id
StrictPattern(src) ==
    /\ MatchesPattern(src)
    /\ Len(AfterMarker(src)) > Len(LeadingDigits(AfterMarker(src)))

C2_DiscoverySkipsFor(Matches(_)) ==
    (/\ pc.phase = "attachments" /\ pc.sub = "img"
     /\ pc.k <= Len(distinct_articles[pc.a].body)
     /\ ~Matches(distinct_articles[pc.a].body[pc.k]))
        => /\ requests' = requests
           /\ articles_attachments' = articles_attachments
           /\ pc' = [pc EXCEPT !.k = pc.k + 1]

C2_RenderSkipsFor(Matches(_)) ==
    (/\ Rendering /\ pc.sub = "img"
     /\ pc.k <= Len(Original(pc.i, pc.a).body)
     /\ ~Matches(Original(pc.i, pc.a).body[pc.k]))
        => /\ soup' = soup
           /\ requests' = requests
           /\ pc' = [pc EXCEPT !.k = pc.k + 1]

C2_RenderFailsFor(Matches(_)) ==
    (/\ Rendering /\ pc.sub = "img"
     /\ pc.k <= Len(Original(pc.i, pc.a).body)
     /\ Matches(Original(pc.i, pc.a).body[pc.k])
     /\ ~Indexed(PatternId(Original(pc.i, pc.a).body[pc.k])))
        => /\ pc' = Aborted
           /\ written' = written
           /\ articles' = articles

C2_WrittenFor(Matches(_)) ==
    \A n \in 1..Len(written) :
        LET f == written[n]
            body == Original(f.by[1], f.by[2]).body IN
        /\ IsArticleFile(f) =>
              \A k \in 1..Len(body) : Matches(body[k]) => Indexed(PatternId(body[k]))
        /\ IsHtml(f) =>
              /\ Len(f.content) = Len(body)
              /\ \A k \in 1..Len(body) : ~Matches(body[k]) => f.content[k] = body[k]

C3_GlobalResolution ==
    [][(/\ Rendering /\ pc.sub = "img"
        /\ pc.k <= Len(Original(pc.i, pc.a).body)
        /\ MatchesPattern(Original(pc.i, pc.a).body[pc.k])
        /\ Indexed(PatternId(Original(pc.i, pc.a).body[pc.k])))
           => /\ pc' # Aborted
              /\ soup'[pc.k] # soup[pc.k]]_vars

\* C4: nothing is rendered before every article of every locale has gone
\* through discovery (its list exists, every matching image was asked for, and
\* every listed attachment has its payload), and rendering leaves the index as
\* it is.
RenderBegun ==
    \/ Rendering
    \/ \E n \in 1..Len(written) : written[n].by # <<0, 0>>
    \/ \E d \in dirs : d[1] # <<"raw">>

DiscoveryComplete ==
    /\ DOMAIN articles = LocaleSet
    /\ \A i \in 1..Len(Locales) : \A a \in 1..Len(articles[Locales[i]]) :
          LET article == Original(i, a) IN
          /\ Has(articles_attachments, article.id)
          /\ \A k \in 1..Len(article.body) :
                MatchesPattern(article.body[k]) =>
                   \E r \in 1..Len(requests) :
                      requests[r] = [article |-> article.id,
                                     attachment |-> PatternId(article.body[k])]
    /\ \A n \in 1..Len(Index) : Index[n].content_ # <<>>

C4_Barrier ==
    /\ [](RenderBegun => DiscoveryComplete)
    /\ [][RenderBegun => articles_attachments' = articles_attachments]_vars

C4_Witness ==
    /\ pc.phase = "done"
    /\ Len(articles_attachments) = 2
    /\ \A n \in 1..Len(articles_attachments) : articles_attachments[n].val # <<>>
    /\ \E n \in 1..Len(written) : IsHtml(written[n]) /\ written[n].by[1] = 2

\* C5: a second call of download_all_resources, over the same bodies and with
\* the index of the first call, leaves every attachment list as it was: in
\* particular no list gains an attachment id that it holds already.
ListedIds(list) == {list[m].id : m \in 1..Len(list)}

C5_DiscoveryIdempotent ==
    [][run > 1 =>
          \A n \in 1..Len(articles_attachments) :
              LET old == articles_attachments[n].val
                  new == articles_attachments'[n].val IN
              \A m \in (Len(old) + 1)..Len(new) : new[m].id \notin ListedIds(old)]_vars

\* C6: when the one call of download_all_resources has gone through all
\* articles, no attachment list holds the same attachment id twice.
Discovered1 ==
    run = 1 /\ pc.phase \in {"categories", "sections", "save_raw", "save_nice", "done"}

C6_NoDuplicateIds ==
    Discovered1 =>
        \A n \in 1..Len(articles_attachments) :
            LET list == articles_attachments[n].val IN
            \A j, k \in 1..Len(list) : list[j].id = list[k].id => j = k

\* C7: a rewritten src names, relative to the article's directory, a file
\* that the renderer wrote for this article: ./attachments/{id}/{name}.
RECURSIVE Slashed(_)
Slashed(components) ==
    IF Len(components) = 0 THEN <<>>
    ELSE <<"/">> \o components[1] \o Slashed(Tail(components))

C7_RoundTrip ==
    [][(Rendering /\ pc.sub = "img" /\ pc' # Aborted /\ soup' # soup)
          => \E n \in 1..Len(written) :
                LET f == written[n] IN
                /\ f.by = <<pc.i, pc.a>>
                /\ Len(f.path) = Len(path) + 3
                /\ SubSeq(f.path, 1, Len(path)) = path
                /\ f.path[Len(path) + 2] = IntToStr(PatternId(soup[pc.k]))
                /\ soup'[pc.k] = <<".">> \o Slashed(SubSeq(f.path, Len(path) + 1, Len(f.path)))]_vars

\* C9: a response other than OK to a metadata or a content request of
\* discovery aborts the run, and nothing of it is stored.
C9_NonSuccessFatal ==
    [][(/\ pc.phase = "attachments"
        /\ requests' # requests
        /\ ~response'.raised
        /\ response'.reason # "OK")
           => /\ pc' = Aborted
              /\ articles_attachments' = articles_attachments]_vars

\* C10: a metadata request that raises aborts the run.
C10_TransportFailureFatal ==
    [][(/\ pc.phase = "attachments" /\ pc.sub = "img"
        /\ requests' # requests
        /\ response'.raised)
           => pc' = Aborted]_vars

\* ------------------------------------------------- the snapshot and the halt
RawName(kind, l) == <<<<"raw">>, <<kind>>, <<kind \o "_", l, ".json">>>>

\* the raw snapshot is on disk, whole, with the bodies that the server sent
RawComplete ==
    /\ \A i \in 1..Len(Locales) :
          LET file == FileAt(written, RawName("articles", Locales[i]))
              chain == pages[<<"articles", Locales[i]>>]
              fetched == ItemsUpTo(chain, Len(chain)) IN
          /\ file # <<>>
          /\ Len(file[1].articles) = Len(fetched)
          /\ \A a \in 1..Len(fetched) : file[1].articles[a].body = fetched[a].body
          /\ FileAt(written, RawName("categories", Locales[i])) # <<>>
          /\ FileAt(written, RawName("sections", Locales[i])) # <<>>
    /\ FileAt(written, <<<<"raw">>, <<"articles_attachments.json">>>>) # <<>>

\* C11: throughout rendering, after it, and after a fatal error in it, the raw
\* snapshot is wholly written and the body of every article of every locale in
\* it is the body the API returned, not the rewritten one.
C11_RawSnapshotPreRewrite ==
    /\ []((Rendering \/ pc.phase = "done") => RawComplete)
    /\ [][Rendering => RawComplete']_vars

\* rendering rewrote the body of an article and then failed at a later one
C11_Witness ==
    /\ pc = Aborted
    /\ RawComplete
    /\ \E a \in 1..Len(articles[Locales[1]]) :
          articles[Locales[1]][a].body # Original(1, a).body

\* C12: when a fatal error has halted the run, nothing has been written to the
\* backup directory: no raw snapshot file, no attachment file, no .md or .html.
C12_NoPartialBackup ==
    pc = Aborted => written = <<>>

\* ------------------------------------------------------------ the hierarchy
\* what the server holds of a collection for locale i
Fetched(coll, i) ==
    LET chain == pages[<<coll, Locales[i]>>] IN ItemsUpTo(chain, Len(chain))

\* the section of the article's own locale with the article's section_id, and
\* the category of that locale with that section's category_id
HasSection(i, a) == \E s \in Range(Fetched("sections", i)) : s.id = Original(i, a).section_id
OwnSection(i, a) ==
    CHOOSE s \in Range(Fetched("sections", i)) : s.id = Original(i, a).section_id
HasCategory(i, a) ==
    \E c \in Range(Fetched("categories", i)) : c.id = OwnSection(i, a).category_id
OwnCategory(i, a) ==
    CHOOSE c \in Range(Fetched("categories", i)) : c.id = OwnSection(i, a).category_id
Resolvable(i, a) == HasSection(i, a) /\ HasCategory(i, a)
OwnDir(i, a) ==
    <<secure_filename(OwnCategory(i, a).name), secure_filename(OwnSection(i, a).name)>>

C14_UnresolvableHierarchyFatal ==
    /\ [][(Rendering /\ pc.sub = "plan" /\ ~Resolvable(pc.i, pc.a))
             => /\ pc' = Aborted
                /\ dirs' = dirs
                /\ written' = written]_vars
    /\ [](/\ pc = Aborted => ~ENABLED Next
          /\ \A n \in 1..Len(written) :
                written[n].by # <<0, 0>> => Resolvable(written[n].by[1], written[n].by[2]))

\* the first article was rendered, the second is of a section whose category
\* the locale does not have, and the article of the other locale was not rendered
C14_Witness ==
    /\ pc = Aborted
    /\ Len(Fetched("articles", 1)) = 2 /\ Len(Fetched("articles", 2)) = 1
    /\ Resolvable(1, 1)
    /\ HasSection(1, 2) /\ ~HasCategory(1, 2)
    /\ \E n \in 1..Len(written) : IsHtml(written[n]) /\ written[n].by = <<1, 1>>
    /\ \A n \in 1..Len(written) : written[n].by \in {<<0, 0>>, <<1, 1>>}

\* ------------------------------------------------------- what rendering changes
\* C15: during rendering no category and no section changes, and a step
\* changes no article but the one being rendered, of which it changes the body
\* alone (the title stays), and that once: by the step that writes its files.
C15_OnlyBodyMutated ==
    [][Rendering =>
          /\ categories' = categories
          /\ sections' = sections
          /\ DOMAIN articles' = DOMAIN articles
          /\ \A i \in 1..Len(Locales) :
                /\ Len(articles'[Locales[i]]) = Len(articles[Locales[i]])
                /\ \A a \in 1..Len(articles[Locales[i]]) :
                      LET old == articles[Locales[i]][a]
                          new == articles'[Locales[i]][a] IN
                      /\ new = [old EXCEPT !.body = new.body]
                      /\ new # old => <<i, a>> = <<pc.i, pc.a>> /\ pc.sub = "write"]_vars

\* ------------------------------------------------- payloads and shared ids
\* C16: once download_all_resources has returned, rendering does not fail at
\* the payload of a discovered attachment, whatever bytes were downloaded.
C16_PayloadAlwaysPopulated ==
    [][(/\ Rendering /\ pc.sub = "attachment"
        /\ pc.k <= Len(Val(articles_attachments, articles[Locales[pc.i]][pc.a].id)))
           => pc' # Aborted]_vars

Count(list, x) == Cardinality({n \in 1..Len(list) : list[n] = x})
PlatformImages(body) == SelectSeq(body, MatchesPattern)

\* both locales list an article of the same id, in records of their own, each
\* with one platform image, of the same attachment
SharedId ==
    /\ Len(Fetched("articles", 1)) = 1 /\ Len(Fetched("articles", 2)) = 1
    /\ Original(1, 1).id = Original(2, 1).id
    /\ Original(1, 1) # Original(2, 1)
    /\ Len(PlatformImages(Original(1, 1).body)) = 1
    /\ Len(PlatformImages(Original(2, 1).body)) = 1
    /\ PatternId(PlatformImages(Original(1, 1).body)[1])
          = PatternId(PlatformImages(Original(2, 1).body)[1])

\* C17: when the same article id is in two locales, discovery goes through
\* one record of that id: the attachment that both records embed is asked for
\* once, is listed once and is downloaded once.
C17_DedupById ==
    SharedId =>
        LET id == Original(1, 1).id
            attachment_id == PatternId(PlatformImages(Original(1, 1).body)[1]) IN
        /\ Count(requests, MetaUrl(id, attachment_id)) <= 1
        /\ Count(requests, [content |-> attachment_id]) <= 1
        /\ Has(articles_attachments, id) => Len(Val(articles_attachments, id)) <= 1

\* C18: discovery downloads a payload only into an attachment that has none
\* yet: a content_ once populated is not written again.
C18_PayloadWrittenOnce ==
    [][(/\ pc.phase = "attachments" /\ pc.sub = "content"
        /\ requests' # requests)
           => Val(articles_attachments, distinct_articles[pc.a].id)[pc.k].content_ = <<>>]_vars

\* every metadata request of discovery was answered with an attachment: each
\* request appended one attachment to a list, and only requests append
AllAnswered ==
    Cardinality({r \in 1..Len(requests) : "attachment" \in DOMAIN requests[r]}) = Len(Index)

\* C19: if every metadata request was answered OK with the attachment asked
\* for and discovery completed, rendering does not abort at the lookup of an
\* image's attachment.
C19_OwnListCoversLookup ==
    [][(Rendering /\ pc.sub = "img" /\ AllAnswered) => pc' # Aborted]_vars

\* the articles of both locales, of different ids, had their image rewritten
C19_Witness ==
    /\ pc.phase = "done"
    /\ AllAnswered
    /\ Len(Index) >= 2
    /\ Len(Fetched("articles", 1)) = 1 /\ Len(Fetched("articles", 2)) = 1
    /\ Original(1, 1).id # Original(2, 1).id
    /\ \E m, n \in 1..Len(written) :
          /\ IsHtml(written[m]) /\ written[m].by = <<1, 1>>
          /\ IsHtml(written[n]) /\ written[n].by = <<2, 1>>
          /\ written[n].content # Original(2, 1).body
          /\ written[m].content # Original(1, 1).body

\* ---------------------------------------------------------------- collisions
\* the .md or .html file that an article is rendered to
OwnFile(i, a, extension) ==
    Append(OwnDir(i, a), secure_filename(Original(i, a).title) \o <<extension>>)

\* article a of locale i is rendered before article b of locale j
Before(i, a, j, b) == i < j \/ (i = j /\ a < b)

Places ==
    UNION {{<<i, a>> : a \in 1..Len(Fetched("articles", i))} : i \in 1..Len(Locales)}

\* the last of the articles that are rendered to the same file
LastWriter(i, a) ==
    \A p \in Places :
        OwnFile(p[1], p[2], ".html") = OwnFile(i, a, ".html") => ~Before(i, a, p[1], p[2])

\* C20: writing an article's files raises no error, whatever is on disk; and
\* after the run, of the articles that map to the same directory and the same
\* sanitized title, the .md and .html files hold the one rendered last (locales
\* in their order, articles in the order fetched).
C20_LastWriterWins ==
    /\ [][(Rendering /\ pc.sub = "write") => pc' # Aborted]_vars
    /\ [](pc.phase = "done" =>
             \A p \in Places :
                LastWriter(p[1], p[2]) =>
                   /\ FileAt(written, OwnFile(p[1], p[2], ".html"))
                         = <<articles[Locales[p[1]]][p[2]].body>>
                   /\ FileAt(written, OwnFile(p[1], p[2], ".md"))
                         = <<Markdownify(articles[Locales[p[1]]][p[2]].body)>>)

\* three articles, of titles and of sections that differ, went to one file,
\* which holds the last of them, unlike the two before it
C20_Witness ==
    /\ pc.phase = "done"
    /\ Places = {<<1, 1>>, <<1, 2>>, <<2, 1>>}
    /\ Original(1, 1).title # Original(1, 2).title
    /\ Original(1, 1).section_id # Original(1, 2).section_id
    /\ OwnFile(1, 1, ".html") = OwnFile(2, 1, ".html")
    /\ OwnFile(1, 2, ".html") = OwnFile(2, 1, ".html")
    /\ FileAt(written, OwnFile(1, 1, ".html")) = <<Original(2, 1).body>>
    /\ Original(2, 1).body # Original(1, 1).body
    /\ Original(2, 1).body # Original(1, 2).body

====
